---- MODULE Spec2Model ----
(***************************************************************************)
(* Model of getting-to-philosophy-battery-test.py: the link extractor      *)
(* (remove_first_parenthetical_links, get_first_valid_link,                *)
(* get_first_page_link, is_link_valid) as operators over markup given as   *)
(* blocks of text runs and hyperlinks, and the traversal engine (run_test, *)
(* main) as a state machine.  URLs and text are TLA+ strings; TLC applies  *)
(* Len, SubSeq and \o to them character by character.                      *)
(***************************************************************************)
EXTENDS Integers, Sequences, FiniteSets, TLC

VARIABLES
    pages,          \* main: the seed list loaded from the yaml file
    site,           \* the rendered markup of every page (what driver.get shows)
    test_pass,      \* main: test_pass
    idx,            \* run_test: position of `for page in pages`
    pc,             \* the control point of main/run_test
    current_page,   \* run_test: current_page
    seen,           \* run_test: seen (insertion-ordered dict, as its key sequence)
    first_link,     \* run_test: first_link
    observed,       \* pages passed to battery.log during the current seed
    rendered,       \* pages passed to driver.get during the current seed
    reports,        \* what run_test printed at each break: outcome lines and path
    driver,         \* the webdriver session: "open" or "quit"
    interrupted,    \* a KeyboardInterrupt has been raised
    sensors,        \* the machine: psutil reports a battery, the sysfs files exist
    track_watts,    \* BatteryLog.track_watts
    last_row,       \* the row battery.log wrote last: page, battery and watts fields
    x_pc,           \* extractor harness: "idle", "ready" or "done"
    x_page,         \* extractor harness: the page argument
    x_content,      \* extractor harness: the blocks of the page
    x_result,       \* extractor harness: index of the returned link and its href
    x_soup,         \* extractor harness: the parse trees the last call left behind
    x_first,        \* extractor harness: the result of the first of two calls
    v_pc,           \* validity harness: "idle", "ready" or "done"
    v_lead,         \* validity harness: title text before the namespace word
    v_name,         \* validity harness: the namespace word
    v_suffix,       \* validity harness: what follows the namespace word
    v_valid         \* validity harness: is_link_valid of the target

battery_vars == <<sensors, track_watts, last_row>>
engine_vars == <<pages, site, test_pass, idx, pc, current_page, seen, first_link,
                 observed, rendered, reports, driver, interrupted,
                 sensors, track_watts, last_row>>
extract_vars == <<x_pc, x_page, x_content, x_result, x_soup, x_first>>
valid_vars == <<v_pc, v_lead, v_name, v_suffix, v_valid>>
vars == <<pages, site, test_pass, idx, pc, current_page, seen, first_link,
          observed, rendered, reports, driver, interrupted,
          sensors, track_watts, last_row,
          x_pc, x_page, x_content, x_result, x_soup, x_first,
          v_pc, v_lead, v_name, v_suffix, v_valid>>

(***************************************************************************)
(* Python values and string methods.                                       *)
(***************************************************************************)
\* Python's None, kept apart from every URL of the model by its spelling
None == "<None>"

startswith(s, p) == Len(s) >= Len(p) /\ SubSeq(s, 1, Len(p)) = p

contains(s, sub) ==
    \E i \in 1..(Len(s) - Len(sub) + 1) : SubSeq(s, i, i + Len(sub) - 1) = sub

count(s, ch) == Cardinality({i \in 1..Len(s) : SubSeq(s, i, i) = ch})

IndexOf(s, ch, from) ==
    IF \E i \in from..Len(s) : SubSeq(s, i, i) = ch
    THEN CHOOSE i \in from..Len(s) :
            /\ SubSeq(s, i, i) = ch
            /\ \A j \in from..(i - 1) : SubSeq(s, j, j) # ch
    ELSE 0

(***************************************************************************)
(* Module constants.                                                       *)
(***************************************************************************)
EN_WIKI == "https://en.wikipedia.org/wiki"
PHILOSOPHY == EN_WIKI \o "/Philosophy"

WP_NAMESPACES == <<
    "User", "User_talk", "Wikipedia", "Wikipedia_talk", "File", "File_talk",
    "MediaWiki", "MediaWiki_talk", "Template", "Template_talk", "Help",
    "Help_talk", "Category", "Category_talk", "Portal", "Portal_talk",
    "Draft", "Draft_talk", "TimedText", "TimedText_talk", "Module",
    "Module_talk", "Gadget", "Gadget_talk", "Gadget_definition",
    "Gadget_definition_talk" >>

\* The pattern text of NS_REGEX up to the alternation; its "." matches any
\* character.
RegexPrefixMatch(pat, s) ==
    \/ startswith(s, pat)
    \/ /\ Len(s) >= Len(pat)
       /\ \A i \in 1..Len(pat) :
             SubSeq(pat, i, i) = "." \/ SubSeq(s, i, i) = SubSeq(pat, i, i)

NS_REGEX_NoColon(s) ==
    /\ RegexPrefixMatch(EN_WIKI \o "/", s)
    /\ LET title == SubSeq(s, Len(EN_WIKI) + 2, Len(s))
       IN  \E k \in DOMAIN WP_NAMESPACES : startswith(title, WP_NAMESPACES[k])

\* NS_REGEX.match(s): ^EN_WIKI/(User|User_talk|...):
NS_REGEX(s) ==
    /\ RegexPrefixMatch(EN_WIKI \o "/", s)
    /\ LET title == SubSeq(s, Len(EN_WIKI) + 2, Len(s))
       IN  \E k \in DOMAIN WP_NAMESPACES :
               startswith(title, WP_NAMESPACES[k] \o ":")

is_link_valid(link_href, page) ==
    IF ~startswith(link_href, EN_WIKI) THEN FALSE
    ELSE IF contains(link_href, "cite_note") THEN FALSE
    ELSE IF NS_REGEX(link_href) THEN FALSE
    ELSE TRUE

(***************************************************************************)
(* urllib.parse.urljoin(page, href) for the two shapes the extractor       *)
(* resolves: a reference starting with "/" (a network-path "//host/..."    *)
(* keeps the base scheme, an absolute path keeps scheme and host) and a    *)
(* fragment-only reference "#frag" (replaces the fragment of the base).    *)
(***************************************************************************)
Scheme(url) == SubSeq(url, 1, IndexOf(url, ":", 1))

Origin(url) ==
    LET slashes == IndexOf(url, "/", 1)
        path == IndexOf(url, "/", slashes + 2)
    IN  IF path = 0 THEN url ELSE SubSeq(url, 1, path - 1)

StripFragment(url) ==
    LET h == IndexOf(url, "#", 1)
    IN  IF h = 0 THEN url ELSE SubSeq(url, 1, h - 1)

urljoin(page, href) ==
    IF startswith(href, "//") THEN Scheme(page) \o href
    ELSE IF startswith(href, "/") THEN Origin(page) \o href
    ELSE IF startswith(href, "#") THEN StripFragment(page) \o href
    ELSE href

(***************************************************************************)
(* Markup.  A block is a <p> or <ul> child of the parser output; its nodes *)
(* are, in document order, text runs and hyperlinks.  A hyperlink carries  *)
(* its href (None when the attribute is absent), its class list, its       *)
(* anchor text and the tag that directly holds that text: "a", or an       *)
(* inline tag nested in the link (<a><i>text</i></a>).                     *)
(***************************************************************************)
Text(s) == [kind |-> "text", text |-> s]
Link(h, c, s, w) == [kind |-> "a", href |-> h, class |-> c, text |-> s, wrap |-> w]
Block(t, ns) == [tag |-> t, nodes |-> ns]

IsLink(n) == n.kind = "a"

\* string.parent.name of the text node of node n: "a" only for text held
\* directly by a link; a text run is held by its block
ParentName(n) == IF IsLink(n) THEN n.wrap ELSE "p"

RECURSIVE RemoveScan(_, _, _, _, _)
\* The loop of remove_first_parenthetical_links from text node i on; the
\* result is the set of positions of the links it extracted.
RemoveScan(nodes, i, within_parens, first_parens_done, removed) ==
    IF i > Len(nodes) THEN removed
    ELSE IF nodes[i].text = ""
    THEN RemoveScan(nodes, i + 1, within_parens, first_parens_done, removed)
    ELSE
      LET string == nodes[i]
          extract == within_parens # 0 /\ ParentName(string) = "a"
          removed1 == IF extract THEN removed \cup {i} ELSE removed
          done1 == first_parens_done \/ extract
          closing == count(string.text, ")")
          within1 == within_parens - closing
      IN  IF closing > 0 /\ within1 = 0 /\ done1
          THEN removed1
          ELSE RemoveScan(nodes, i + 1,
                          within1 + count(string.text, "("), done1, removed1)

remove_first_parenthetical_links(nodes) == RemoveScan(nodes, 1, 0, FALSE, {})

IsRedLink_Never(link) == FALSE

\* 'new' in link.get('class', [])
IsRedLink(link) == "new" \in link.class

\* the href handed to is_link_valid: relative and fragment targets resolved
Resolve(page, href) ==
    IF startswith(href, "/") \/ startswith(href, "#")
    THEN urljoin(page, href)
    ELSE href

\* the body of `for link in all_links` reaching `return href`
Passes(page, link) ==
    /\ link.href # None
    /\ ~IsRedLink(link)
    /\ is_link_valid(Resolve(page, link.href), page)

\* Position in the block of the link get_first_valid_link returns, 0 for none.
FirstValidIndex(page, nodes) ==
    LET removed == remove_first_parenthetical_links(nodes)
        all_links == {i \in DOMAIN nodes : IsLink(nodes[i]) /\ i \notin removed}
        ok == {i \in all_links : Passes(page, nodes[i])}
    IN  IF ok = {} THEN 0 ELSE CHOOSE i \in ok : \A j \in ok : i <= j

get_first_valid_link(page, nodes) ==
    LET i == FirstValidIndex(page, nodes)
    IN  IF i = 0 THEN None ELSE Resolve(page, nodes[i].href)

\* driver.find_elements(... '> tag'): the blocks with that tag, in document order
find_elements(content, tag) == {b \in DOMAIN content : content[b].tag = tag}

RECURSIVE SortedSeq(_)
SortedSeq(S) ==
    IF S = {} THEN <<>>
    ELSE LET m == CHOOSE x \in S : \A y \in S : x <= y
         IN  <<m>> \o SortedSeq(S \ {m})

ScanOrder_Document(content) == SortedSeq(DOMAIN content)

\* mw_parser_output: every <p>, then every <ul>
ScanOrder(content) ==
    SortedSeq(find_elements(content, "p")) \o SortedSeq(find_elements(content, "ul"))

\* Where get_first_page_link found its link: <<block, node>>, <<0, 0>> for None.
FirstPageLinkAt(page, content) ==
    LET order == ScanOrder(content)
        hits == {k \in DOMAIN order :
                    FirstValidIndex(page, content[order[k]].nodes) # 0}
    IN  IF hits = {} THEN <<0, 0>>
        ELSE LET k == CHOOSE h \in hits : \A j \in hits : h <= j
             IN  <<order[k], FirstValidIndex(page, content[order[k]].nodes)>>

\* the href returned for the link found at `at`
HrefAt(page, content, at) ==
    IF at[1] = 0 THEN None
    ELSE Resolve(page, content[at[1]].nodes[at[2]].href)

get_first_page_link(page, content) ==
    HrefAt(page, content, FirstPageLinkAt(page, content))

(***************************************************************************)
(* The traversal engine: main and run_test over a site of three articles   *)
(* and the target.  Every article either is a stub without links or opens  *)
(* with a parenthesised link and then links to one page of the site.       *)
(***************************************************************************)
MaxSeeds == 2
MaxPass == 2

PageOrder == <<EN_WIKI \o "/Alpha", EN_WIKI \o "/Beta", EN_WIKI \o "/Gamma">>
Pages == {PageOrder[k] : k \in DOMAIN PageOrder}
Rank(p) == CHOOSE k \in DOMAIN PageOrder : PageOrder[k] = p

\* the href the markup of the site uses for page t: its path, "/wiki/Title"
PathOf(t) == SubSeq(t, Len(Origin(t)) + 1, Len(t))

Stub == << Block("p", << Text("This is a stub.") >>) >>

ArticleTo(t) ==
    << Block("p", << Text("("),
                     Link("/wiki/Greek", {}, "Greek", "a"),
                     Text(") is a "),
                     Link(PathOf(t), {}, "thing", "a") >>) >>

Articles == {Stub} \cup {ArticleTo(t) : t \in Pages \cup {PHILOSOPHY}}

\* Seed lists up to renaming of the articles: a page appears in a list only
\* after the pages that precede it in PageOrder (the site ranges over every
\* assignment of articles to pages, so every other list is a renaming).
SeedLists ==
    {s \in UNION {[1..n -> Pages] : n \in 1..MaxSeeds} :
        \A i \in DOMAIN s :
            \/ Rank(s[i]) = 1
            \/ \E j \in 1..(i - 1) : Rank(s[j]) >= Rank(s[i]) - 1}

InSeen_Never(d, k) == FALSE

\* seen.get(k): truthy exactly for the keys of the dict
InSeen(d, k) == \E i \in DOMAIN d : d[i] = k

DictSet_MoveToEnd(d, k) == Append(SelectSeq(d, LAMBDA e : e # k), k)

DictSet_Forget(d, k) == d

\* seen[k] = True: a new key goes last, a present key keeps its place
DictSet(d, k) == IF InSeen(d, k) THEN d ELSE Append(d, k)

(***************************************************************************)
(* BatteryLog.  The sysfs files hold microvolts and microamperes; the      *)
(* readings are fixed, chosen so that the product is a whole number of     *)
(* watts (Python prints the float 18.0).                                   *)
(***************************************************************************)
VoltageNow == 12000000
CurrentNow == 1500000

NoRow == [page |-> None, battery |-> "", watts |-> ""]
Header == [page |-> "Page", battery |-> "Battery Percent", watts |-> "Watts"]

\* f'{cur_watts}W' for cur_watts = cur_volts * cur_amps / 1000000 / 1000000
WattsText(cur_volts, cur_amps) ==
    LET milli == ((cur_volts \div 1000) * (cur_amps \div 1000)) \div 1000
    IN  ToString(milli \div 1000) \o "." \o ToString((milli % 1000) \div 100) \o "W"

\* BatteryLog.power_use
power_use == IF ~track_watts THEN "0W" ELSE WattsText(VoltageNow, CurrentNow)

Init ==
    /\ pages \in SeedLists
    /\ site \in [Pages -> Articles]
    /\ test_pass = 1
    /\ idx = 0
    /\ pc = "init"
    /\ current_page = None
    /\ seen = <<>>
    /\ first_link = None
    /\ observed = <<>>
    /\ rendered = <<>>
    /\ reports = <<>>
    /\ driver = "open"
    /\ interrupted = FALSE
    /\ sensors \in [battery : BOOLEAN, files : BOOLEAN]
    /\ track_watts = FALSE
    /\ last_row = NoRow
    /\ x_pc = "idle"
    /\ x_page = None
    /\ x_content = <<>>
    /\ x_result = [at |-> <<0, 0>>, href |-> None]
    /\ x_soup = <<>>
    /\ x_first = [at |-> <<0, 0>>, href |-> None]
    /\ v_pc = "idle"
    /\ v_lead = ""
    /\ v_name = ""
    /\ v_suffix = ""
    /\ v_valid = FALSE

\* main: battery = BatteryLog(f), which looks for the sysfs files and
\* writes the header row
NewBatteryLog ==
    /\ pc = "init"
    /\ track_watts' = sensors.files
    /\ last_row' = Header
    /\ pc' = "pass"
    /\ UNCHANGED <<pages, site, test_pass, idx, current_page, seen, first_link,
                   observed, rendered, reports, driver, interrupted, sensors>>
    /\ UNCHANGED <<extract_vars, valid_vars>>

\* main: `while True:` prints the pass and calls run_test
StartPass ==
    /\ pc = "pass"
    /\ test_pass <= MaxPass
    /\ idx' = 1
    /\ pc' = "seed"
    /\ UNCHANGED <<pages, site, test_pass, current_page, seen, first_link,
                   observed, rendered, reports, driver, interrupted>>
    /\ UNCHANGED <<battery_vars, extract_vars, valid_vars>>

NextSeed_KeepSeen ==
    /\ pc = "seed"
    /\ idx <= Len(pages)
    /\ seen' = seen
    /\ current_page' = pages[idx]
    /\ observed' = <<>>
    /\ rendered' = <<>>
    /\ pc' = "log"
    /\ UNCHANGED <<pages, site, test_pass, idx, first_link, reports, driver,
                   interrupted>>
    /\ UNCHANGED <<battery_vars, extract_vars, valid_vars>>

\* run_test: `for page in pages:` takes the next seed
NextSeed ==
    /\ pc = "seed"
    /\ idx <= Len(pages)
    /\ seen' = <<>>
    /\ current_page' = pages[idx]
    /\ observed' = <<>>
    /\ rendered' = <<>>
    /\ pc' = "log"
    /\ UNCHANGED <<pages, site, test_pass, idx, first_link, reports, driver,
                   interrupted>>
    /\ UNCHANGED <<battery_vars, extract_vars, valid_vars>>

\* run_test returns when the seeds are exhausted; main counts the pass
EndPass ==
    /\ pc = "seed"
    /\ idx > Len(pages)
    /\ test_pass' = test_pass + 1
    /\ pc' = "pass"
    /\ UNCHANGED <<pages, site, idx, current_page, seen, first_link, observed,
                   rendered, reports, driver, interrupted>>
    /\ UNCHANGED <<battery_vars, extract_vars, valid_vars>>

Log_Silent ==
    /\ pc = "log"
    /\ sensors.battery
    /\ observed' = observed
    /\ last_row' = last_row
    /\ pc' = "get"
    /\ UNCHANGED <<pages, site, test_pass, idx, current_page, seen, first_link,
                   rendered, reports, driver, interrupted, sensors, track_watts>>
    /\ UNCHANGED <<extract_vars, valid_vars>>

\* battery.log(current_page): the row is written and flushed
Log ==
    /\ pc = "log"
    /\ sensors.battery
    /\ observed' = Append(observed, current_page)
    /\ last_row' = [page |-> current_page, battery |-> "percent", watts |-> power_use]
    /\ pc' = "get"
    /\ UNCHANGED <<pages, site, test_pass, idx, current_page, seen, first_link,
                   rendered, reports, driver, interrupted, sensors, track_watts>>
    /\ UNCHANGED <<extract_vars, valid_vars>>

\* battery.log(current_page) when psutil.sensors_battery() returns None:
\* battery.percent raises AttributeError before any row is written, and
\* nothing in main catches it
LogFail ==
    /\ pc = "log"
    /\ ~sensors.battery
    /\ pc' = "crash"
    /\ UNCHANGED <<pages, site, test_pass, idx, current_page, seen, first_link,
                   observed, rendered, reports, driver, interrupted>>
    /\ UNCHANGED <<battery_vars, extract_vars, valid_vars>>

\* get_first_page_link: driver.get(page)
Render ==
    /\ pc = "get"
    /\ rendered' = Append(rendered, current_page)
    /\ pc' = "find"
    /\ UNCHANGED <<pages, site, test_pass, idx, current_page, seen, first_link,
                   observed, reports, driver, interrupted>>
    /\ UNCHANGED <<battery_vars, extract_vars, valid_vars>>

RenderFail_SkipSeed ==
    /\ pc = "get"
    /\ idx' = idx + 1
    /\ pc' = "seed"
    /\ UNCHANGED <<pages, site, test_pass, current_page, seen, first_link,
                   observed, rendered, reports, driver, interrupted>>
    /\ UNCHANGED <<battery_vars, extract_vars, valid_vars>>

\* driver.get raises: nothing in main catches it, the process dies
RenderFail ==
    /\ pc = "get"
    /\ pc' = "crash"
    /\ UNCHANGED <<pages, site, test_pass, idx, current_page, seen, first_link,
                   observed, rendered, reports, driver, interrupted>>
    /\ UNCHANGED <<battery_vars, extract_vars, valid_vars>>

\* get_first_page_link: find_elements and the scan of the blocks
FindLink ==
    /\ pc = "find"
    /\ first_link' = get_first_page_link(current_page, site[current_page])
    /\ pc' = "check"
    /\ UNCHANGED <<pages, site, test_pass, idx, current_page, seen, observed,
                   rendered, reports, driver, interrupted>>
    /\ UNCHANGED <<battery_vars, extract_vars, valid_vars>>

Check_RecordBeforeTest ==
    /\ pc = "check"
    /\ LET seen1 == IF first_link # None THEN DictSet(seen, first_link) ELSE seen
           no_links == first_link = None
           loop == InSeen(seen1, first_link)
           found == first_link = PHILOSOPHY
           break_loop == no_links \/ loop \/ found
           lines == (IF no_links THEN <<"DeadEnd">> ELSE <<>>)
                        \o (IF loop THEN <<"CycleDetected">> ELSE <<>>)
                        \o (IF found THEN <<"ReachedTarget">> ELSE <<>>)
       IN  /\ seen' = seen1
           /\ IF break_loop
              THEN /\ reports' = Append(reports,
                                    [pass |-> test_pass, seed |-> pages[idx],
                                     outcome |-> lines, path |-> seen1])
                   /\ idx' = idx + 1
                   /\ pc' = "seed"
                   /\ UNCHANGED current_page
              ELSE /\ current_page' = first_link
                   /\ pc' = "log"
                   /\ UNCHANGED <<reports, idx>>
    /\ UNCHANGED <<pages, site, test_pass, first_link, observed, rendered, driver,
                   interrupted>>
    /\ UNCHANGED <<battery_vars, extract_vars, valid_vars>>

\* run_test: the termination checks, the update of seen, the break with
\* its printed path, or the move to the next page
Check ==
    /\ pc = "check"
    /\ LET no_links == first_link = None
           loop == InSeen(seen, first_link)
           found == first_link = PHILOSOPHY
           break_loop == no_links \/ loop \/ found
           lines == (IF no_links THEN <<"DeadEnd">> ELSE <<>>)
                        \o (IF loop THEN <<"CycleDetected">> ELSE <<>>)
                        \o (IF found THEN <<"ReachedTarget">> ELSE <<>>)
           seen1 == IF first_link # None THEN DictSet(seen, first_link) ELSE seen
       IN  /\ seen' = seen1
           /\ IF break_loop
              THEN /\ reports' = Append(reports,
                                    [pass |-> test_pass, seed |-> pages[idx],
                                     outcome |-> lines, path |-> seen1])
                   /\ idx' = idx + 1
                   /\ pc' = "seed"
                   /\ UNCHANGED current_page
              ELSE /\ current_page' = first_link
                   /\ pc' = "log"
                   /\ UNCHANGED <<reports, idx>>
    /\ UNCHANGED <<pages, site, test_pass, first_link, observed, rendered, driver,
                   interrupted>>
    /\ UNCHANGED <<battery_vars, extract_vars, valid_vars>>

\* KeyboardInterrupt raised anywhere inside the try block of main
Interrupt ==
    /\ pc \in {"init", "pass", "seed", "log", "get", "find", "check"}
    /\ interrupted' = TRUE
    /\ pc' = "except"
    /\ UNCHANGED <<pages, site, test_pass, idx, current_page, seen, first_link,
                   observed, rendered, reports, driver>>
    /\ UNCHANGED <<battery_vars, extract_vars, valid_vars>>

Quit_LeaveOpen ==
    /\ pc = "except"
    /\ driver' = driver
    /\ pc' = "raise"
    /\ UNCHANGED <<pages, site, test_pass, idx, current_page, seen, first_link,
                   observed, rendered, reports, interrupted>>
    /\ UNCHANGED <<battery_vars, extract_vars, valid_vars>>

\* except KeyboardInterrupt: driver.quit()
Quit ==
    /\ pc = "except"
    /\ driver' = "quit"
    /\ pc' = "raise"
    /\ UNCHANGED <<pages, site, test_pass, idx, current_page, seen, first_link,
                   observed, rendered, reports, interrupted>>
    /\ UNCHANGED <<battery_vars, extract_vars, valid_vars>>

\* raise SystemExit(...)
Exit ==
    /\ pc = "raise"
    /\ pc' = "exit"
    /\ UNCHANGED <<pages, site, test_pass, idx, current_page, seen, first_link,
                   observed, rendered, reports, driver, interrupted>>
    /\ UNCHANGED <<battery_vars, extract_vars, valid_vars>>

Next ==
    \/ NewBatteryLog
    \/ StartPass
    \/ NextSeed
    \/ EndPass
    \/ Log
    \/ LogFail
    \/ Render
    \/ RenderFail
    \/ FindLink
    \/ Check
    \/ Interrupt
    \/ Quit
    \/ Exit

Spec == Init /\ [][Next]_vars

\* The handler of KeyboardInterrupt runs to its end once the exception is
\* raised: nothing else is scheduled in the single-threaded process.
FairSpec == Spec /\ WF_vars(Quit) /\ WF_vars(Exit)

(***************************************************************************)
(* Extractor harness: one captured page, one call of get_first_page_link.  *)
(* The markup is drawn as a stream of items, a block start (<p> or <ul>)   *)
(* or a node, of bounded length.                                           *)
(***************************************************************************)
MaxLinkItems == 4
MaxParenItems == 5

BlockStart(t) == [kind |-> "block", tag |-> t]
BlockStarts == {BlockStart("p"), BlockStart("ul")}

RECURSIVE BlocksFrom(_, _, _)
BlocksFrom(stream, i, acc) ==
    IF i > Len(stream) THEN acc
    ELSE IF stream[i].kind = "block"
    THEN BlocksFrom(stream, i + 1, Append(acc, Block(stream[i].tag, <<>>)))
    ELSE BlocksFrom(stream, i + 1,
            [acc EXCEPT ![Len(acc)].nodes = Append(@, stream[i])])

Streams(nodes, n) ==
    {s \in UNION {[1..k -> nodes \cup BlockStarts] : k \in 1..n} :
        s[1] \in BlockStarts}

\* Links of every validity class, and text without parentheses.
LinkNodes == {
    Text("is a"),
    Link("/wiki/Greek", {"mw-redirect"}, "Greek", "a"),
    Link("/wiki/Rome", {"new"}, "Rome", "a"),
    Link("/wiki/Help:Contents", {}, "help", "a"),
    Link("#History", {}, "below", "a"),
    Link("#cite_note-1", {}, "[1]", "a"),
    Link("https://example.org/x", {"external"}, "site", "a"),
    Link(None, {}, "anchor", "a") }

\* Parenthesised text and links whose anchor text holds parentheses.
ParenNodes == {
    Text("("),
    Text(")"),
    Text("(b)"),
    Link("/wiki/Greek", {}, "Greek", "a"),
    Link("/wiki/Latin", {}, "(x)", "a"),
    Link("/wiki/Rome", {}, "Rome", "i") }

ExtractPages == {EN_WIKI \o "/Alpha", EN_WIKI \o "/Alpha#Top"}

LinkInputs == {BlocksFrom(s, 1, <<>>) : s \in Streams(LinkNodes, MaxLinkItems)}
ParenInputs == {BlocksFrom(s, 1, <<>>) : s \in Streams(ParenNodes, MaxParenItems)}

NoResult == [at |-> <<0, 0>>, href |-> None]

EngineIdle ==
    /\ pages = <<>>
    /\ site = <<>>
    /\ test_pass = 1
    /\ idx = 0
    /\ pc = "idle"
    /\ current_page = None
    /\ seen = <<>>
    /\ first_link = None
    /\ observed = <<>>
    /\ rendered = <<>>
    /\ reports = <<>>
    /\ driver = "open"
    /\ interrupted = FALSE
    /\ sensors = [battery |-> TRUE, files |-> TRUE]
    /\ track_watts = FALSE
    /\ last_row = NoRow

ExtractIdle ==
    /\ x_pc = "idle"
    /\ x_page = None
    /\ x_content = <<>>
    /\ x_result = NoResult
    /\ x_soup = <<>>
    /\ x_first = NoResult

ValidIdle ==
    /\ v_pc = "idle"
    /\ v_lead = ""
    /\ v_name = ""
    /\ v_suffix = ""
    /\ v_valid = FALSE

ExtractInit ==
    /\ x_pc = "ready"
    /\ \/ x_page \in ExtractPages /\ x_content \in LinkInputs
       \/ x_page = EN_WIKI \o "/Alpha" /\ x_content \in ParenInputs
    /\ x_result = NoResult
    /\ x_soup = <<>>
    /\ x_first = NoResult
    /\ EngineIdle
    /\ ValidIdle

Extract ==
    /\ x_pc = "ready"
    /\ LET at == FirstPageLinkAt(x_page, x_content)
       IN  x_result' = [at |-> at, href |-> HrefAt(x_page, x_content, at)]
    /\ x_pc' = "done"
    /\ UNCHANGED <<x_page, x_content, x_soup, x_first>>
    /\ UNCHANGED engine_vars
    /\ UNCHANGED valid_vars

ExtractNext == Extract

ExtractSpec == ExtractInit /\ [][ExtractNext]_vars

(***************************************************************************)
(* Repeat harness: two calls of get_first_page_link on the same captured   *)
(* page.  x_soup holds, per block, the positions of the links that the     *)
(* call extracted from the trees it parsed.                                *)
(***************************************************************************)
MaxRepeatItems == 4

RepeatInputs == {BlocksFrom(s, 1, <<>>) : s \in Streams(ParenNodes, MaxRepeatItems)}

\* what is left of the trees of a call: the blocks without the extracted links
Remaining(content, soup) ==
    [b \in DOMAIN content |->
        LET keep == SortedSeq(DOMAIN content[b].nodes \ soup[b])
        IN  Block(content[b].tag, [k \in DOMAIN keep |-> content[b].nodes[keep[k]]])]

BeautifulSoup_Reuse(html, soup) ==
    IF soup = <<>> THEN html ELSE Remaining(html, soup)

\* BeautifulSoup(element.get_attribute('innerHTML'), 'html.parser'): every
\* call parses the markup held by the driver into trees of its own; the
\* trees of an earlier call are not read
BeautifulSoup(html, soup) == html

\* the blocks get_first_page_link handed to get_first_valid_link before it
\* returned the link found at `at`
Scanned(trees, at) ==
    LET order == ScanOrder(trees)
    IN  IF at[1] = 0 THEN DOMAIN trees
        ELSE {order[k] : k \in {j \in DOMAIN order :
                  j <= CHOOSE h \in DOMAIN order : order[h] = at[1]}}

\* the links remove_first_parenthetical_links extracted from those blocks
Extracted(trees, at) ==
    [b \in DOMAIN trees |->
        IF b \in Scanned(trees, at)
        THEN remove_first_parenthetical_links(trees[b].nodes)
        ELSE {}]

RepeatInit ==
    /\ x_pc = "ready"
    /\ x_page = EN_WIKI \o "/Alpha"
    /\ x_content \in RepeatInputs
    /\ x_result = NoResult
    /\ x_soup = <<>>
    /\ x_first = NoResult
    /\ EngineIdle
    /\ ValidIdle

\* one call of get_first_page_link(x_page, driver)
ExtractRun ==
    /\ x_pc \in {"ready", "once"}
    /\ LET trees == BeautifulSoup(x_content, x_soup)
           at == FirstPageLinkAt(x_page, trees)
       IN  /\ x_result' = [at |-> at, href |-> HrefAt(x_page, trees, at)]
           /\ x_soup' = Extracted(trees, at)
    /\ x_first' = x_result
    /\ x_pc' = IF x_pc = "ready" THEN "once" ELSE "twice"
    /\ UNCHANGED <<x_page, x_content>>
    /\ UNCHANGED engine_vars
    /\ UNCHANGED valid_vars

RepeatNext == ExtractRun

RepeatSpec == RepeatInit /\ [][RepeatNext]_vars

(***************************************************************************)
(* Validity harness: one call of is_link_valid on a target built as        *)
(* EN_WIKI/<lead><namespace word><suffix>.                                 *)
(***************************************************************************)
Leads == {"", "My_"}
Suffixes == {":Contents", ":", "_talk:Main_Page", "", "ing_Hand", "_show",
             "#cite_note-2"}

Target(lead, name, suffix) == EN_WIKI \o "/" \o lead \o name \o suffix

ValidInit ==
    /\ v_pc = "ready"
    /\ v_lead \in Leads
    /\ v_name \in {WP_NAMESPACES[k] : k \in DOMAIN WP_NAMESPACES}
    /\ v_suffix \in Suffixes
    /\ v_valid = FALSE
    /\ EngineIdle
    /\ ExtractIdle

CheckValid ==
    /\ v_pc = "ready"
    /\ v_valid' = is_link_valid(Target(v_lead, v_name, v_suffix), EN_WIKI \o "/Alpha")
    /\ v_pc' = "done"
    /\ UNCHANGED <<v_lead, v_name, v_suffix>>
    /\ UNCHANGED engine_vars
    /\ UNCHANGED extract_vars

ValidNext == CheckValid

ValidSpec == ValidInit /\ [][ValidNext]_vars

(***************************************************************************)
(* Properties of the extractor.                                            *)
(***************************************************************************)
NodeAt(content, at) == content[at[1]].nodes[at[2]]

LinkPositions(content) ==
    UNION {{<<b, i>> : i \in {j \in DOMAIN content[b].nodes :
                                    IsLink(content[b].nodes[j])}} :
              b \in DOMAIN content}

\* a candidate of the claims: has a target, is not red, passes is_link_valid
Eligible(page, link) ==
    /\ link.href # None
    /\ "new" \notin link.class
    /\ is_link_valid(Resolve(page, link.href), page)

NoParens(content) ==
    \A b \in DOMAIN content : \A i \in DOMAIN content[b].nodes :
        count(content[b].nodes[i].text, "(") = 0
            /\ count(content[b].nodes[i].text, ")") = 0

DocumentBefore(content, a, b) ==
    a[1] < b[1] \/ (a[1] = b[1] /\ a[2] < b[2])

ParagraphsFirstBefore(content, a, b) ==
    \/ content[a[1]].tag = "p" /\ content[b[1]].tag = "ul"
    \/ content[a[1]].tag = content[b[1]].tag /\ DocumentBefore(content, a, b)

EligiblePositions(page, content) ==
    {a \in LinkPositions(content) : Eligible(page, NodeAt(content, a))}

\* C4 (as stated): without parentheses in any text run, the extractor returns
\* the eligible link that comes first in document order over all blocks.
C4_FirstInDocumentOrder ==
    (x_pc = "done" /\ NoParens(x_content)) =>
        LET E == EligiblePositions(x_page, x_content)
        IN  IF E = {} THEN x_result.at = <<0, 0>>
            ELSE /\ x_result.at \in E
                 /\ \A a \in E : ~DocumentBefore(x_content, a, x_result.at)

\* C4 (amended): without parentheses in any text run, the extractor returns
\* the first eligible link of the paragraphs taken in document order and,
\* when no paragraph holds one, the first eligible link of the lists taken
\* in document order; it returns None exactly when no block holds one.
C4_ParagraphsThenLists ==
    (x_pc = "done" /\ NoParens(x_content)) =>
        LET E == EligiblePositions(x_page, x_content)
        IN  IF E = {} THEN x_result = NoResult
            ELSE /\ x_result.at \in E
                 /\ \A a \in E : ~ParagraphsFirstBefore(x_content, a, x_result.at)
                 /\ x_result.href =
                        Resolve(x_page, NodeAt(x_content, x_result.at).href)

\* a list with an eligible link precedes the paragraph whose link is returned
C4_Witness ==
    /\ x_pc = "done"
    /\ NoParens(x_content)
    /\ Len(x_content) >= 2
    /\ x_content[1].tag = "ul"
    /\ \E a \in EligiblePositions(x_page, x_content) : a[1] = 1
    /\ x_content[x_result.at[1]].tag = "p"
    /\ x_result.at[1] > 1

\* Nesting depth after the first k characters of text, entered at depth d.
DepthIn(text, d, k) ==
    d + count(SubSeq(text, 1, k), "(") - count(SubSeq(text, 1, k), ")")

RECURSIVE DepthBefore(_, _)
\* Nesting depth in front of node i of a block, characters read left to right.
DepthBefore(nodes, i) ==
    IF i = 1 THEN 0
    ELSE DepthIn(nodes[i - 1].text, DepthBefore(nodes, i - 1), Len(nodes[i - 1].text))

\* the node in which the depth first returns to 0, 0 when that never happens
SpanClose(nodes) ==
    LET closes == {i \in DOMAIN nodes :
                     \E k \in 1..Len(nodes[i].text) :
                         DepthIn(nodes[i].text, DepthBefore(nodes, i), k) = 0}
    IN  IF closes = {} THEN 0 ELSE CHOOSE i \in closes : \A j \in closes : i <= j

\* the links that begin inside the span the block opens with
SpanLinks(nodes) == {i \in 1..SpanClose(nodes) : IsLink(nodes[i])}

\* the block opens with "(", the span closes in the block and holds a link
OpensWithSpan(nodes) ==
    /\ nodes # <<>>
    /\ ~IsLink(nodes[1])
    /\ startswith(nodes[1].text, "(")
    /\ SpanClose(nodes) # 0
    /\ SpanLinks(nodes) # {}

\* C5 (as stated): when the lead opens with a balanced parenthetical span
\* holding links, no link inside the span is returned, and the first valid
\* link after the span closes is the one returned.
C5_SpanLinksNeverReturned ==
    (x_pc = "done" /\ x_content # <<>>
        /\ OpensWithSpan(x_content[ScanOrder(x_content)[1]].nodes)) =>
        LET lead == ScanOrder(x_content)[1]
            nodes == x_content[lead].nodes
            after == {i \in DOMAIN nodes :
                        /\ i > SpanClose(nodes)
                        /\ IsLink(nodes[i])
                        /\ Eligible(x_page, nodes[i])}
        IN  /\ ~(x_result.at[1] = lead /\ x_result.at[2] \in SpanLinks(nodes))
            /\ after # {} =>
                 /\ x_result.at[1] = lead
                 /\ x_result.at[2] \in after
                 /\ \A i \in after : x_result.at[2] <= i

\* C6 (as stated): a link whose target is a same-page anchor "#frag" is
\* never returned by the extractor.
C6_SamePageAnchorRejected ==
    (x_pc = "done" /\ x_result.at # <<0, 0>>) =>
        ~startswith(NodeAt(x_content, x_result.at).href, "#")

\* C8: a link whose class list holds "new" is never the link returned, and
\* it does not end the scan: without parentheses, content that holds an
\* eligible link still yields a link.
C8_RedLinkNeverReturned ==
    (x_pc = "done") =>
        /\ x_result.at # <<0, 0>> => "new" \notin NodeAt(x_content, x_result.at).class
        /\ (NoParens(x_content) /\ EligiblePositions(x_page, x_content) # {})
              => x_result.at # <<0, 0>>

\* a red link with an article target is passed over for the link after it
C8_Witness ==
    /\ x_pc = "done"
    /\ Len(x_content) = 1
    /\ Len(x_content[1].nodes) >= 2
    /\ IsLink(x_content[1].nodes[1])
    /\ "new" \in x_content[1].nodes[1].class
    /\ is_link_valid(Resolve(x_page, x_content[1].nodes[1].href), x_page)
    /\ x_result.at = <<1, 2>>

(***************************************************************************)
(* Properties of is_link_valid.                                            *)
(***************************************************************************)
\* C7: is_link_valid is false for every target EN_WIKI/<Name>:<rest> with
\* Name one of the 26 namespace names (User_talk:... included, built as
\* User followed by _talk:), and true for every target under EN_WIKI whose
\* title holds a namespace word that is not a <Name>: prefix of the title
\* (Helping_Hand, Help_show, My_Help:Contents) and no citation marker.
C7_NamespacePrefixOnly ==
    /\ Len(WP_NAMESPACES) = 26
    /\ (v_pc = "done") =>
        LET title == v_lead \o v_name \o v_suffix
            names == {WP_NAMESPACES[k] : k \in DOMAIN WP_NAMESPACES}
            qualified ==
                \/ v_lead = "" /\ startswith(v_suffix, ":")
                \/ v_lead = "" /\ startswith(v_suffix, "_talk:")
                              /\ (v_name \o "_talk") \in names
        IN  /\ qualified => v_valid = FALSE
            /\ (~qualified /\ ~contains(title, "cite_note")
                    /\ (v_lead = "" => ~contains(v_suffix, ":")))
                  => v_valid = TRUE

\* Help:Contents is rejected
C7_Witness ==
    /\ v_pc = "done"
    /\ v_lead = ""
    /\ v_name = "Help"
    /\ v_suffix = ":Contents"
    /\ v_valid = FALSE

(***************************************************************************)
(* Properties of the traversal engine.                                     *)
(***************************************************************************)
\* the page the extractor yields for page p of the site
NextOf(p) == IF p \in Pages THEN get_first_page_link(p, site[p]) ELSE None

\* C1: a seed whose chain is A -> B -> C -> Philosophy (A, B, C distinct
\* articles) is reported as ReachedTarget with the path [A, B, C, Philosophy].
C1_ReachedTargetPath ==
    \A k \in DOMAIN reports :
        LET a == reports[k].seed
            b == NextOf(a)
            c == NextOf(b)
        IN  (/\ b \in Pages /\ c \in Pages
             /\ a # b /\ a # c /\ b # c
             /\ NextOf(c) = PHILOSOPHY)
            => /\ reports[k].outcome = <<"ReachedTarget">>
               /\ reports[k].path = <<a, b, c, PHILOSOPHY>>

\* C2: a seed whose chain is A -> B -> C -> B is reported as CycleDetected
\* with the path [A, B, C, B], the closing page listed a second time.
C2_CycleDetectedPath ==
    \A k \in DOMAIN reports :
        LET a == reports[k].seed
            b == NextOf(a)
            c == NextOf(b)
        IN  (/\ b \in Pages /\ c \in Pages
             /\ a # b /\ a # c /\ b # c
             /\ NextOf(c) = b)
            => /\ reports[k].outcome = <<"CycleDetected">>
               /\ reports[k].path = <<a, b, c, b>>

\* C3: a seed whose first extraction yields no link is reported, after a
\* single render, as DeadEnd with the path [A].
C3_DeadEndPath ==
    \A k \in DOMAIN reports :
        LET a == reports[k].seed
        IN  NextOf(a) = None
            => /\ reports[k].outcome = <<"DeadEnd">>
               /\ reports[k].path = <<a>>
               /\ (k = Len(reports) /\ pc = "seed") => rendered = <<a>>

\* C9: the visited set is empty when the traversal of a seed starts, and
\* the outcome and the path reported for a seed are the same in every pass
\* and at every position of the seed list.
C9_NoStateLeak ==
    /\ (pc = "log" /\ observed = <<>>) => seen = <<>>
    /\ \A i \in DOMAIN reports : \A j \in DOMAIN reports :
          reports[i].seed = reports[j].seed
            => /\ reports[i].outcome = reports[j].outcome
               /\ reports[i].path = reports[j].path

\* a seed reported in two passes with another seed, of a non-empty path,
\* traversed in between
C9_Witness ==
    \E i \in DOMAIN reports : \E j \in DOMAIN reports : \E m \in DOMAIN reports :
        /\ i < m /\ m < j
        /\ reports[i].seed = reports[j].seed
        /\ reports[i].pass < reports[j].pass
        /\ reports[m].seed # reports[i].seed
        /\ reports[m].path # <<>>
        /\ reports[i].path # <<>>

\* C10: once a KeyboardInterrupt is raised during the traversal, the driver
\* is quit before the process exits, the process does exit, and no page is
\* observed or rendered any more.
C10_InterruptQuitsDriver ==
    /\ []((pc = "exit" /\ interrupted) => driver = "quit")
    /\ [][interrupted => (observed' = observed /\ rendered' = rendered)]_vars
    /\ (interrupted ~> (driver = "quit" /\ pc = "exit"))

\* the interrupt arrived between driver.get and the extraction, in the
\* second pass, and the process has exited
C10_Witness ==
    /\ pc = "exit"
    /\ interrupted
    /\ driver = "quit"
    /\ test_pass = 2
    /\ Len(rendered) = Len(observed)
    /\ Len(rendered) >= 1
    /\ first_link # None

(***************************************************************************)
(* Failures of the traversal loop                                          *)
(***************************************************************************)

\* C11: a render failure is never retried or skipped.  A step that leaves
\* the render position without having rendered goes to the error state
\* (or to the interrupt handler), and the error state has no successor:
\* no later render or observation, no remaining seed, no later pass.
C11_RenderFailureEndsRun ==
    /\ [][(pc = "get" /\ rendered' = rendered) => pc' \in {"crash", "except"}]_vars
    /\ [][pc # "crash"]_vars

C11_Witness ==
    /\ pc = "crash"
    /\ Len(observed) = Len(rendered) + 1
    /\ Len(rendered) >= 1
    /\ Len(pages) = 2
    /\ idx = 1
    /\ test_pass = 1

\* C12: an unavailable telemetry sensor never aborts the run.  Every step
\* out of the observation position, other than an interrupt, writes the row
\* of the current page (with the placeholder "0W" when the voltage and
\* current files are missing) and goes on to the render of the same page.
C12_SensorNeverAborts ==
    [][(pc = "log" /\ pc' # "except")
           => /\ pc' = "get"
              /\ current_page' = current_page
              /\ observed' = Append(observed, current_page)
              /\ last_row'.page = current_page
              /\ (~sensors.files => last_row'.watts = "0W")]_vars

(***************************************************************************)
(* Order of observation and render                                         *)
(***************************************************************************)

\* C13: in every iteration the current page is observed exactly once and
\* before it is rendered.  Waiting to render, the observations are the
\* renders plus the current page; once rendered, the observed pages are
\* the rendered pages, the last of them the current page, also in the
\* iteration that finds no link.
C13_ObserveThenRender ==
    /\ pc = "log" => observed = rendered
    /\ pc = "get" => observed = Append(rendered, current_page)
    /\ pc \in {"find", "check"} =>
           /\ observed = rendered
           /\ rendered # <<>>
           /\ rendered[Len(rendered)] = current_page

C13_Witness ==
    /\ pc = "check"
    /\ first_link = None
    /\ Len(rendered) >= 2
    /\ observed = rendered

(***************************************************************************)
(* The visited set                                                         *)
(***************************************************************************)

IsPrefix(s, t) == Len(s) <= Len(t) /\ SubSeq(t, 1, Len(s)) = s

\* C14: within one seed's traversal the visited set only grows and keeps
\* its insertion order: every step other than the start of a seed's
\* traversal leaves the old keys, in their order, as a prefix of the new.
C14_SeenOnlyGrows ==
    [][(pc = "seed" /\ pc' = "log") \/ IsPrefix(seen, seen')]_vars

C14_Witness ==
    /\ pc = "seed"
    /\ Len(seen) >= 2
    /\ reports # <<>>
    /\ reports[Len(reports)].outcome = <<"CycleDetected">>
    /\ reports[Len(reports)].path = seen

\* The outcomes whose test fires on the link just extracted
Fired ==
    (IF first_link = None THEN {"DeadEnd"} ELSE {})
        \cup (IF first_link # None /\ InSeen(seen, first_link)
              THEN {"CycleDetected"} ELSE {})
        \cup (IF first_link = PHILOSOPHY THEN {"ReachedTarget"} ELSE {})

\* C18: a traversal reports exactly one of DeadEnd, CycleDetected and
\* ReachedTarget.  At most one test fires on an extracted link; the loop
\* continues with that link exactly when none fires; otherwise the
\* traversal ends with a report of the one outcome that fired; and no
\* report ever holds two outcomes.
C18_ExactlyOneOutcome ==
    /\ [](\A i \in DOMAIN reports : Len(reports[i].outcome) = 1)
    /\ [][(pc = "check" /\ pc' # "except")
              => /\ Cardinality(Fired) <= 1
                 /\ (Fired = {}) <=> (pc' = "log")
                 /\ Fired = {} => (current_page' = first_link /\ reports' = reports)
                 /\ Fired # {} =>
                        /\ pc' = "seed"
                        /\ Len(reports') = Len(reports) + 1
                        /\ reports'[Len(reports')].outcome \in {<<o>> : o \in Fired}]_vars

C18_Witness ==
    /\ Len(reports) = 2
    /\ reports[1].outcome = <<"ReachedTarget">>
    /\ reports[2].outcome = <<"CycleDetected">>

\* C19: a traversal over the finite site makes at most N + 1 renders, N the
\* number of pages, and the test that follows the last possible render
\* reports an outcome, so the traversal ends there.
C19_BoundedRenders ==
    /\ Len(rendered) <= Cardinality(Pages) + 1
    /\ (pc = "check" /\ Len(rendered) = Cardinality(Pages) + 1) => Fired # {}

C19_Witness ==
    /\ pc = "seed"
    /\ Len(rendered) = Cardinality(Pages) + 1
    /\ reports # <<>>
    /\ reports[Len(reports)].outcome = <<"CycleDetected">>

Renders(p) == Cardinality({i \in DOMAIN rendered : rendered[i] = p})

\* C20: within one seed's traversal the seed is rendered at most twice and
\* every other page at most once, and the step that ends the traversal
\* renders and observes nothing: the page extracted last is not visited
\* again.
C20_NoPageRenderedTwice ==
    /\ [](\A p \in Pages :
             Renders(p) <= IF rendered # <<>> /\ p = rendered[1] THEN 2 ELSE 1)
    /\ [][(pc = "check" /\ pc' = "seed") => UNCHANGED <<observed, rendered>>]_vars

C20_Witness ==
    /\ pc = "seed"
    /\ Len(rendered) >= 3
    /\ Renders(rendered[1]) = 2
    /\ rendered[Len(rendered)] = rendered[1]

(***************************************************************************)
(* Properties of the parenthetical pass and of repeated extraction.        *)
(***************************************************************************)

RECURSIVE FlatTo(_, _)
\* the nodes of the first b blocks, in document order
FlatTo(content, b) ==
    IF b = 0 THEN <<>> ELSE FlatTo(content, b - 1) \o content[b].nodes

FlatIndex(content, at) == Len(FlatTo(content, at[1] - 1)) + at[2]

\* the node in which a ")" first brings the depth back to 0, 0 for none
GroupClose(nodes) ==
    LET closes == {i \in DOMAIN nodes :
                     \E k \in 1..Len(nodes[i].text) :
                         /\ SubSeq(nodes[i].text, k, k) = ")"
                         /\ DepthIn(nodes[i].text, DepthBefore(nodes, i), k) = 0}
    IN  IF closes = {} THEN 0 ELSE CHOOSE i \in closes : \A j \in closes : i <= j

NeverNegative(nodes) ==
    \A i \in DOMAIN nodes : \A k \in 0..Len(nodes[i].text) :
        DepthIn(nodes[i].text, DepthBefore(nodes, i), k) >= 0

\* C16 (as stated): only the first balanced top-level parenthetical group
\* of the whole article content discards links.  In content whose
\* parentheses never close more than was opened, no link that comes after
\* the close of the first group is discarded, in the same block or a later
\* one, whether or not the first group held links.
C16_OnlyFirstGroupDiscards ==
    LET flat == FlatTo(x_content, Len(x_content))
    IN  (x_pc # "ready" /\ NeverNegative(flat) /\ GroupClose(flat) # 0) =>
            \A b \in DOMAIN x_soup : \A i \in x_soup[b] :
                FlatIndex(x_content, <<b, i>>) <= GroupClose(flat)

\* C17 (as stated): a link is discarded only at depth strictly above 0; a
\* link at depth 0 or at negative depth is never discarded.
C17_DiscardOnlyInsideParens ==
    (x_pc # "ready") =>
        \A b \in DOMAIN x_soup : \A i \in x_soup[b] :
            DepthBefore(x_content[b].nodes, i) > 0

====
